---- MODULE Spec2Model ----
(***************************************************************************)
(* Model of src/bot.py: the forearm-workout reminder bot.                  *)
(*                                                                         *)
(* State: the user registry (user_chats), the lazily created per-chat      *)
(* statistics (user_stats), the job queue of weekly reminder triggers, the *)
(* Google Sheets event sink, the wall clock, and the handlers that are     *)
(* suspended at an await of the asyncio event loop.  Code between two      *)
(* awaits of one coroutine runs without interruption, so each action is    *)
(* the code from one await to the next.                                    *)
(***************************************************************************)
EXTENDS Integers, Sequences, FiniteSets, TLC

\* ---------------------------------------------------------------- bounds

\* Handler invocations (updates and trigger firings) begun in one behaviour.
MaxOps == 2
\* The clock of the whole program reads from tick 0 to tick MaxNow.
MaxNow == 1
\* log_workout calls in one behaviour of the engine specification.
MaxEngineCalls == 3
\* The clock of the engine specification reads from tick 0 to MaxEngineNow.
MaxEngineNow == 6

\* Clock ticks per day: timedelta.days is the floor of the elapsed time in
\* days, so the clock is finer than a day.
TicksPerDay == 2

Chats == {1, 2}
\* Coroutines that can be suspended at an await at the same time.
Handlers == {1, 2}
Usernames == {"alice", "NoUsername"}
FirstNames == {"Ann"}

\* Python's None; also the falsy value of `if stats["last_workout"]:`.
None == <<>>

\* ------------------------------------------------------------- catalogue

\* ACHIEVEMENTS, in declaration order.
ACHIEVEMENTS ==
    << "first_workout", "streak_3", "streak_10", "hold_60",
       "workouts_10", "workouts_50", "pullup_king" >>

\* The order in which check_achievements tests its rules.
RuleOrder ==
    << "first_workout", "streak_3", "streak_10", "workouts_10",
       "workouts_50", "hold_60", "pullup_king" >>

\* target_days of schedule_reminders_for_user: Monday, Wednesday, Friday.
target_days == {0, 2, 4}
ReminderName == "forearm_reminder"

\* ------------------------------------------------------------ timestamps

\* datetime.isoformat(): the instant written as date and time of day.
isoformat(t) == << t \div TicksPerDay, t % TicksPerDay >>

\* datetime.fromisoformat(): the instant a written timestamp denotes.
fromisoformat(s) == s[1] * TicksPerDay + s[2]

\* (now - last).days
DaysBetween(last, now) == (now - last) \div TicksPerDay

Truthy(v) == v # None

\* ----------------------------------------------------------------- stats

\* The default factory of user_stats.
DefaultStats ==
    [ workouts_done   |-> 0,
      total_hold_time |-> 0,
      max_hold_time   |-> 0,
      pullups_done    |-> 0,
      current_streak  |-> 0,
      last_workout    |-> None,
      achievements    |-> <<>> ]

Touch_Overwrite(us, c) ==
    [k \in DOMAIN us \cup {c} |-> IF k = c THEN DefaultStats ELSE us[k]]

\* user_stats[chat_id] of a defaultdict: a missing key is created.
Touch(us, c) ==
    IF c \in DOMAIN us THEN us
    ELSE [k \in DOMAIN us \cup {c} |-> IF k = c THEN DefaultStats ELSE us[k]]

StatsOf(us, c) == IF c \in DOMAIN us THEN us[c] ELSE DefaultStats

Contains(seq, x) == \E i \in 1 .. Len(seq) : seq[i] = x

RuleHolds_BeforeIncrement(id, stats) ==
    CASE id = "first_workout" -> stats.workouts_done = 0
      [] id = "streak_3"      -> stats.current_streak >= 3
      [] id = "streak_10"     -> stats.current_streak >= 10
      [] id = "workouts_10"   -> stats.workouts_done >= 10
      [] id = "workouts_50"   -> stats.workouts_done >= 50
      [] id = "hold_60"       -> stats.max_hold_time >= 60
      [] id = "pullup_king"   -> stats.pullups_done >= 100

\* The condition of each rule of check_achievements.
RuleHolds(id, stats) ==
    CASE id = "first_workout" -> stats.workouts_done = 1
      [] id = "streak_3"      -> stats.current_streak >= 3
      [] id = "streak_10"     -> stats.current_streak >= 10
      [] id = "workouts_10"   -> stats.workouts_done >= 10
      [] id = "workouts_50"   -> stats.workouts_done >= 50
      [] id = "hold_60"       -> stats.max_hold_time >= 60
      [] id = "pullup_king"   -> stats.pullups_done >= 100

ShouldGrant_NoMembershipTest(id, stats) == RuleHolds(id, stats)

\* `<condition> and "<id>" not in stats["achievements"]`
ShouldGrant(id, stats) ==
    RuleHolds(id, stats) /\ ~Contains(stats.achievements, id)

RECURSIVE CheckFrom(_, _, _)
CheckFrom(i, stats, new) ==
    IF i > Len(RuleOrder) THEN [stats |-> stats, new |-> new]
    ELSE IF ShouldGrant(RuleOrder[i], stats)
         THEN CheckFrom(i + 1,
                        [stats EXCEPT !.achievements = Append(@, RuleOrder[i])],
                        Append(new, RuleOrder[i]))
         ELSE CheckFrom(i + 1, stats, new)

\* check_achievements: the updated record and the newly unlocked ids.
check_achievements(stats) == CheckFrom(1, stats, <<>>)

ParseHold_UpperEdge(callback_data) ==
    CASE callback_data = "log_hold_25" -> 30
      [] callback_data = "log_hold_35" -> 40
      [] callback_data = "log_hold_45" -> 60
      [] OTHER -> 30

\* hold_time of process_workout_log.
ParseHold(callback_data) ==
    CASE callback_data = "log_hold_25" -> 25
      [] callback_data = "log_hold_35" -> 35
      [] callback_data = "log_hold_45" -> 45
      [] OTHER -> 25

ParsePullups_NoDefault(callback_data) ==
    CASE callback_data = "log_pull_5" -> 5
      [] callback_data = "log_pull_7" -> 7
      [] callback_data = "log_pull_9" -> 9
      [] OTHER -> 0

\* pullups of process_workout_log.
ParsePullups(callback_data) ==
    CASE callback_data = "log_pull_5" -> 5
      [] callback_data = "log_pull_7" -> 7
      [] callback_data = "log_pull_9" -> 9
      [] OTHER -> 6

MaxHold_Overwrite(cur, hold_time) == hold_time

MaxHold_Keep(cur, hold_time) == cur

\* max(stats["max_hold_time"], hold_time)
MaxHold(cur, hold_time) == IF cur >= hold_time THEN cur ELSE hold_time

UpdateCounters_FromSnapshot(stats, hold_time, pullups, t) ==
    [stats EXCEPT !.workouts_done   = DefaultStats.workouts_done + 1,
                  !.total_hold_time = DefaultStats.total_hold_time + hold_time * 3,
                  !.max_hold_time   = MaxHold(@, hold_time),
                  !.pullups_done    = DefaultStats.pullups_done + pullups * 3,
                  !.last_workout    = isoformat(t)]

UpdateCounters_OneSet(stats, hold_time, pullups, t) ==
    [stats EXCEPT !.workouts_done   = @ + 1,
                  !.total_hold_time = @ + hold_time,
                  !.max_hold_time   = MaxHold(@, hold_time),
                  !.pullups_done    = @ + pullups,
                  !.last_workout    = isoformat(t)]

\* The counters and the timestamp, as process_workout_log writes them.
UpdateCounters(stats, hold_time, pullups, t) ==
    [stats EXCEPT !.workouts_done   = @ + 1,
                  !.total_hold_time = @ + hold_time * 3,
                  !.max_hold_time   = MaxHold(@, hold_time),
                  !.pullups_done    = @ + pullups * 3,
                  !.last_workout    = isoformat(t)]

UpdateStreak_Restart(stats, t) == [stats EXCEPT !.current_streak = 1]

\* The streak, computed from the record as it stands after UpdateCounters.
UpdateStreak(stats, t) ==
    IF Truthy(stats.last_workout)
    THEN IF DaysBetween(fromisoformat(stats.last_workout), t) <= 2
         THEN [stats EXCEPT !.current_streak = @ + 1]
         ELSE [stats EXCEPT !.current_streak = 1]
    ELSE [stats EXCEPT !.current_streak = 1]

\* The engine of process_workout_log: counters, streak, achievements.
LogWorkout(stats, hold_time, pullups, t) ==
    check_achievements(UpdateStreak(UpdateCounters(stats, hold_time, pullups, t), t))

\* ------------------------------------------------------------- the state

VARIABLES
    user_chats,   \* registry: chat id -> profile (a dict, keys added by start)
    user_stats,   \* chat id -> stats record (a defaultdict, keys added on access)
    job_queue,    \* whether application.job_queue exists
    jobs,         \* <<chat id, day>> -> number of scheduled "forearm_reminder" jobs
    service,      \* whether GoogleSheetsLogger.service was built
    sheet,        \* rows appended to the spreadsheet, in append order
    logfile,      \* lines written through logger.error
    now,          \* the last reading of the wall clock, in ticks
    inflight,     \* handler -> the coroutine suspended at an await, or Idle
    outbox,       \* <<chat id, text>> -> number of messages delivered
    calls,        \* chat id -> the log-workout submissions applied, in order
    ops           \* handler invocations begun

vars ==
    << user_chats, user_stats, job_queue, jobs, service, sheet, logfile, now,
       inflight, outbox, calls, ops >>

Idle == [kind |-> "idle", chat_id |-> 0, data |-> "", pc |-> "idle", text |-> ""]

Texts ==
    { "welcome", "todays_workout", "stats_view", "achievements_view", "help",
      "fact", "ask_details", "workout_confirmation", "reminder", "guidance",
      "apology" }

\* Callback data that starts with "log_".
LogPrefixed ==
    { "log_workout", "log_hold_25", "log_hold_35", "log_hold_45", "log_pull_5",
      "log_pull_7", "log_pull_9", "log_simple", "log_other" }

\* callback_data.startswith("log_")
startswith_log(callback_data) == callback_data \in LogPrefixed

\* The callback data the router can receive: every value a keyboard carries,
\* and a "log_" value no keyboard carries.
CallbackData ==
    { "workout_today", "stats", "achievements", "help", "random_fact",
      "back_to_menu" } \cup LogPrefixed

Init ==
    /\ user_chats = << >>
    /\ user_stats = << >>
    /\ job_queue \in BOOLEAN
    /\ jobs = [j \in Chats \X target_days |-> 0]
    /\ service \in BOOLEAN
    /\ sheet = << >>
    /\ logfile = {}
    /\ now = 0
    /\ inflight = [h \in Handlers |-> Idle]
    /\ outbox = [m \in Chats \X Texts |-> 0]
    /\ calls = [c \in Chats |-> << >>]
    /\ ops = 0

\* ------------------------------------------------------------ event sink

LogEvent_NoTry(rows, svc, outcome, event) ==
    IF ~svc THEN [sheet |-> rows, raised |-> FALSE, lines |-> {}]
    ELSE IF outcome = "ok"
         THEN [sheet |-> Append(rows, event), raised |-> FALSE, lines |-> {}]
         ELSE [sheet |-> rows, raised |-> TRUE, lines |-> {}]

\* GoogleSheetsLogger.log_event: the rows after the call, whether the call
\* raised to its caller, and the lines it wrote to the local logger.
\* outcome is what the append request does: "ok" or "fail".
LogEvent(rows, svc, outcome, event) ==
    IF ~svc THEN [sheet |-> rows, raised |-> FALSE, lines |-> {}]
    ELSE IF outcome = "ok"
         THEN [sheet |-> Append(rows, event), raised |-> FALSE, lines |-> {}]
         ELSE [sheet |-> rows, raised |-> FALSE,
               lines |-> {[line |-> "sheets_write_failed", chat_id |-> event.chat_id]}]

Event(type, c, u) == [event_type |-> type, chat_id |-> c, username |-> u]

\* user_chats.get(chat_id, {}).get("username")
UsernameOf(uc, c) == IF c \in DOMAIN uc THEN uc[c].username ELSE ""

Line(l, c) == [line |-> l, chat_id |-> c]

\* error_handler, called by the Application with the exception a handler
\* raised: a local log line and an ERROR row.
error_handler(c, cause, outcome) ==
    LET ev == LogEvent(sheet, service, outcome, Event("ERROR", c, ""))
    IN  /\ sheet' = ev.sheet
        /\ logfile' = logfile \cup {Line(cause, c)} \cup ev.lines

Deliver(c, text) == outbox' = [outbox EXCEPT ![<<c, text>>] = @ + 1]

\* The free handler that takes the next invocation.
FreeHandler == CHOOSE h \in Handlers :
    /\ inflight[h] = Idle
    /\ \A g \in Handlers : inflight[g] = Idle => h <= g

CanBegin == ops < MaxOps /\ \E h \in Handlers : inflight[h] = Idle

Begin(kind, c, data, pc, text) ==
    /\ inflight' = [inflight EXCEPT ![FreeHandler] =
                      [kind |-> kind, chat_id |-> c, data |-> data,
                       pc |-> pc, text |-> text]]
    /\ ops' = ops + 1

Finish(h) == inflight' = [inflight EXCEPT ![h] = Idle]

\* ------------------------------------------------------------- scheduler

RemoveJobs_Keep(js, c) == js

RemoveJobs_AnyChat(js, c) == [j \in DOMAIN js |-> 0]

\* The loop over job_queue.jobs() that removes the chat's named jobs.
RemoveJobs(js, c) == [j \in DOMAIN js |-> IF j[1] = c THEN 0 ELSE js[j]]

InstallJobs_AllChats(js, c) == [j \in DOMAIN js |-> js[j] + 1]

\* The loop over target_days that calls run_daily.
InstallJobs(js, c) == [j \in DOMAIN js |-> IF j[1] = c THEN js[j] + 1 ELSE js[j]]

\* schedule_reminders_for_user: the jobs and the logger.error line it leaves.
schedule_reminders_for_user(js, jq, c) ==
    IF ~jq THEN [jobs |-> js, lines |-> {Line("job_queue_missing", c)}]
    ELSE [jobs |-> InstallJobs(RemoveJobs(js, c), c), lines |-> {}]

JobsOf(js, c) == {d \in target_days : js[<<c, d>>] > 0}
JobCount(js, c) == js[<<c, 0>>] + js[<<c, 2>>] + js[<<c, 4>>]

\* -------------------------------------------------------------- handlers

IsLogSubmission(callback_data) ==
    startswith_log(callback_data) /\ callback_data # "log_workout"

\* The text of the view button_callback dispatches callback_data to, "" when
\* no branch of its if/elif chain matches.
ViewOf(callback_data) ==
    CASE callback_data = "workout_today" -> "todays_workout"
      [] callback_data = "stats"         -> "stats_view"
      [] callback_data = "achievements"  -> "achievements_view"
      [] callback_data = "help"          -> "help"
      [] callback_data = "random_fact"   -> "fact"
      [] callback_data = "log_workout"   -> "ask_details"
      [] IsLogSubmission(callback_data)  -> "workout_confirmation"
      [] OTHER -> ""

\* What a log-workout submission leaves in calls: its inputs, the record
\* before and after, and the achievements it reports as new.
CallRecord(before, hold_time, pullups, t, r) ==
    [ hold_time |-> hold_time, pullups |-> pullups, at |-> t,
      before |-> before, after |-> r.stats, new |-> r.new ]

\* The profile start stores in user_chats.
Profile(u, f, t) == [username |-> u, first_name |-> f, registered_at |-> isoformat(t)]

\* /start arrives: start up to `await update.message.reply_text`.  t is
\* what datetime.now returns: no earlier than the last reading.
StartBegin(c, u, f, t) ==
    /\ CanBegin
    /\ t >= now
    /\ now' = t
    /\ user_chats' =
         [k \in DOMAIN user_chats \cup {c} |->
            IF k = c
            THEN Profile(u, f, t)
            ELSE user_chats[k]]
    /\ Begin("start", c, u, "reply_text", "welcome")
    /\ UNCHANGED << user_stats, job_queue, jobs, service, sheet, logfile,
                    outbox, calls >>

\* reply_text returns: start from there to its end, the START row and
\* schedule_reminders_for_user, which has no await of its own.
StartReplied(h, outcome) ==
    /\ inflight[h].kind = "start"
    /\ inflight[h].pc = "reply_text"
    /\ LET c == inflight[h].chat_id
           ev == LogEvent(sheet, service, outcome, Event("START", c, inflight[h].data))
           sch == schedule_reminders_for_user(jobs, job_queue, c)
       IN  /\ Deliver(c, inflight[h].text)
           /\ sheet' = ev.sheet
           /\ IF ev.raised
              THEN /\ logfile' = logfile \cup {Line("error_sink", c)}
                   /\ jobs' = jobs
              ELSE /\ logfile' = logfile \cup ev.lines \cup sch.lines
                   /\ jobs' = sch.jobs
    /\ Finish(h)
    /\ UNCHANGED << user_chats, user_stats, job_queue, service, now, calls, ops >>

\* An await of a handler raises (the request to Telegram failed): the
\* handler ends there and the Application calls error_handler.
AwaitFailed(h, kind, pc, outcome) ==
    /\ inflight[h].kind = kind
    /\ inflight[h].pc = pc
    /\ error_handler(inflight[h].chat_id, "error_transport", outcome)
    /\ Finish(h)
    /\ UNCHANGED << user_chats, user_stats, job_queue, jobs, service, now,
                    outbox, calls, ops >>

\* reply_text raises in start.
StartReplyFailed(h, outcome) == AwaitFailed(h, "start", "reply_text", outcome)

\* A button press arrives: button_callback up to `await query.answer()`.
ButtonBegin(c, callback_data) ==
    /\ CanBegin
    /\ Begin("button", c, callback_data, "answer", "")
    /\ UNCHANGED << user_chats, user_stats, job_queue, jobs, service, sheet,
                    logfile, now, outbox, calls >>

\* query.answer() returns: button_callback from there through the
\* dispatched function up to its `await query.edit_message_text`.  t is
\* what datetime.now returns in process_workout_log.
ButtonAnswered(h, t) ==
    /\ inflight[h].kind = "button"
    /\ inflight[h].pc = "answer"
    /\ LET c == inflight[h].chat_id
           callback_data == inflight[h].data
           text == ViewOf(callback_data)
           before == StatsOf(user_stats, c)
           hold_time == ParseHold(callback_data)
           pullups == ParsePullups(callback_data)
           r == LogWorkout(before, hold_time, pullups, t)
       IN  /\ IF text = ""
              THEN Finish(h)
              ELSE inflight' = [inflight EXCEPT ![h].pc = "edit_message_text",
                                                ![h].text = text]
           /\ IF IsLogSubmission(callback_data)
              THEN /\ t >= now
                   /\ now' = t
                   /\ user_stats' = [Touch(user_stats, c) EXCEPT ![c] = r.stats]
                   /\ calls' = [calls EXCEPT ![c] =
                                  Append(@, CallRecord(before, hold_time, pullups, t, r))]
              ELSE /\ t = now
                   /\ user_stats' =
                        IF callback_data \in {"stats", "achievements"}
                        THEN Touch(user_stats, c) ELSE user_stats
                   /\ UNCHANGED << calls, now >>
    /\ UNCHANGED << user_chats, job_queue, jobs, service, sheet, logfile,
                    outbox, ops >>

\* query.answer() raises.
ButtonAnswerFailed(h, outcome) == AwaitFailed(h, "button", "answer", outcome)

\* edit_message_text returns: the dispatched function from there to its
\* end; process_workout_log appends the WORKOUT_COMPLETED row.
ButtonEdited(h, outcome) ==
    /\ inflight[h].kind = "button"
    /\ inflight[h].pc = "edit_message_text"
    /\ LET c == inflight[h].chat_id
           ev == LogEvent(sheet, service, outcome,
                          Event("WORKOUT_COMPLETED", c, UsernameOf(user_chats, c)))
       IN  /\ Deliver(c, inflight[h].text)
           /\ IF IsLogSubmission(inflight[h].data)
              THEN /\ sheet' = ev.sheet
                   /\ logfile' = logfile \cup
                        (IF ev.raised THEN {Line("error_sink", c)} ELSE ev.lines)
              ELSE /\ outcome = "ok"
                   /\ UNCHANGED << sheet, logfile >>
    /\ Finish(h)
    /\ UNCHANGED << user_chats, user_stats, job_queue, jobs, service, now, calls, ops >>

\* edit_message_text raises.
ButtonEditFailed(h, outcome) ==
    AwaitFailed(h, "button", "edit_message_text", outcome)

Registered_Always(uc, c) == TRUE

\* `chat_id not in user_chats`, negated.
Registered(uc, c) == c \in DOMAIN uc

TrySend_LogFirst(ok, rows, svc, outcome, c, u) ==
    LET ev == LogEvent(rows, svc, outcome, Event("REMINDER_SENT", c, u))
    IN  [delivered |-> ok, sheet |-> ev.sheet,
         lines |-> IF ok THEN ev.lines ELSE {Line("send_failed", c)}]

\* The try block of send_reminder: send_message, then the REMINDER_SENT
\* row; `except Exception` catches what either raises.
TrySend(ok, rows, svc, outcome, c, u) ==
    IF ok
    THEN LET ev == LogEvent(rows, svc, outcome, Event("REMINDER_SENT", c, u))
         IN  [delivered |-> TRUE, sheet |-> ev.sheet,
              lines |-> IF ev.raised THEN {Line("send_failed", c)} ELSE ev.lines]
    ELSE [delivered |-> FALSE, sheet |-> rows, lines |-> {Line("send_failed", c)}]

\* A job of chat c on day d fires: send_reminder up to
\* `await context.bot.send_message`, or to its return when the chat is not
\* in the registry.
Fire(c, d) ==
    /\ CanBegin
    /\ jobs[<<c, d>>] > 0
    /\ IF ~Registered(user_chats, c)
       THEN /\ jobs' = [jobs EXCEPT ![<<c, d>>] = @ - 1]
            /\ ops' = ops + 1
            /\ UNCHANGED inflight
       ELSE /\ Begin("reminder", c, "", "send_message", "reminder")
            /\ UNCHANGED jobs
    /\ UNCHANGED << user_chats, user_stats, job_queue, service, sheet, logfile,
                    now, outbox, calls >>

\* send_reminder from the return (or the exception) of send_message to its
\* end.
ReminderSend(h, ok, outcome) ==
    /\ inflight[h].kind = "reminder"
    /\ inflight[h].pc = "send_message"
    /\ LET c == inflight[h].chat_id
           r == TrySend(ok, sheet, service, outcome, c, UsernameOf(user_chats, c))
       IN  /\ outbox' = IF r.delivered
                        THEN [outbox EXCEPT ![<<c, inflight[h].text>>] = @ + 1]
                        ELSE outbox
           /\ sheet' = r.sheet
           /\ logfile' = logfile \cup r.lines
    /\ Finish(h)
    /\ UNCHANGED << user_chats, user_stats, job_queue, jobs, service, now, calls, ops >>

\* The readings datetime.now can return in the whole program.
Clock == 0 .. MaxNow

Outcomes == {"ok", "fail"}

\* Chat ids name chats in the order of their first update: the first update
\* of a behaviour comes from chat 1.
Arrives(c) == c <= ops + 1

\* The button presses of the whole-program specification: a view, two log
\* submissions and a value that button_callback has no branch for.
SpecButtons == {"stats", "log_hold_45", "log_pull_9", "back_to_menu"}
SpecUsernames == {"alice"}

Next ==
    \/ \E c \in Chats, u \in SpecUsernames, f \in FirstNames, t \in Clock :
          Arrives(c) /\ StartBegin(c, u, f, t)
    \/ \E h \in Handlers, o \in Outcomes : StartReplied(h, o)
    \/ \E h \in Handlers, o \in Outcomes : StartReplyFailed(h, o)
    \/ \E c \in Chats, d \in SpecButtons : Arrives(c) /\ ButtonBegin(c, d)
    \/ \E h \in Handlers, t \in Clock : ButtonAnswered(h, t)
    \/ \E h \in Handlers, o \in Outcomes : ButtonAnswerFailed(h, o)
    \/ \E h \in Handlers, o \in Outcomes : ButtonEdited(h, o)
    \/ \E h \in Handlers, o \in Outcomes : ButtonEditFailed(h, o)
    \/ \E c \in Chats, d \in target_days : Fire(c, d)
    \/ \E h \in Handlers, ok \in BOOLEAN, o \in Outcomes : ReminderSend(h, ok, o)

Spec == Init /\ [][Next]_vars

\* ------------------------------------------------- the engine on its own

\* The arguments of log_workout(chat_id, hold_seconds, pullup_reps): the
\* hold buckets of the buttons and a hold above the hold_60 threshold, the
\* default pull-up count and the largest one a button carries.
HoldInputs == {25, 45, 65}
PullupInputs == {6, 9}
EngineChats == {1}

InitEngine == Init /\ job_queue /\ service

\* log_workout: the statements of process_workout_log from the counters to
\* check_achievements, with hold_time and pullups as its arguments; t is
\* what datetime.now returns.
EngineCall(c, hold_time, pullups, t) ==
    /\ Len(calls[c]) < MaxEngineCalls
    /\ t >= now
    /\ now' = t
    /\ LET before == StatsOf(user_stats, c)
           r == LogWorkout(before, hold_time, pullups, t)
       IN  /\ user_stats' = [Touch(user_stats, c) EXCEPT ![c] = r.stats]
           /\ calls' = [calls EXCEPT ![c] =
                          Append(@, CallRecord(before, hold_time, pullups, t, r))]
    /\ UNCHANGED << user_chats, job_queue, jobs, service, sheet, logfile,
                    inflight, outbox, ops >>

\* The readings datetime.now can return in the engine specification.
EngineClock == 0 .. MaxEngineNow

NextEngine ==
    \E c \in EngineChats, hold_time \in HoldInputs, pullups \in PullupInputs,
       t \in EngineClock :
          EngineCall(c, hold_time, pullups, t)

SpecEngine == InitEngine /\ [][NextEngine]_vars

\* ------------------------------------------- send_reminder on its own

\* send_reminder is driven with a job of every chat, registered or not:
\* the registry and the scheduled chats are drawn independently.
InitReminder ==
    /\ \E S \in SUBSET Chats :
          user_chats = [c \in S |-> Profile("alice", "Ann", 0)]
    /\ \E S \in SUBSET Chats :
          jobs = [j \in Chats \X target_days |-> IF j[1] \in S THEN 1 ELSE 0]
    /\ user_stats = << >>
    /\ job_queue = TRUE
    /\ service \in BOOLEAN
    /\ sheet = << >>
    /\ logfile = {}
    /\ now = 0
    /\ inflight = [h \in Handlers |-> Idle]
    /\ outbox = [m \in Chats \X Texts |-> 0]
    /\ calls = [c \in Chats |-> << >>]
    /\ ops = 0

NextReminder ==
    \/ \E c \in Chats, d \in target_days : Fire(c, d)
    \/ \E h \in Handlers, ok \in BOOLEAN, o \in Outcomes : ReminderSend(h, ok, o)

SpecReminder == InitReminder /\ [][NextReminder]_vars

\* ---------------------------------------------------------------- claims

InRegistry(c) == c \in DOMAIN user_chats

RECURSIVE MaxHoldOf(_)
\* The largest hold_time among the submissions cs, 0 when there is none.
MaxHoldOf(cs) ==
    IF cs = << >> THEN 0
    ELSE LET m == MaxHoldOf(Tail(cs))
         IN  IF Head(cs).hold_time >= m THEN Head(cs).hold_time ELSE m

\* The submissions among cs that report achievement id as newly unlocked.
Reporting(cs, id) == {i \in 1 .. Len(cs) : Contains(cs[i].new, id)}

\* C1: streak policy of log_workout.  The first logged workout of a chat
\* sets current_streak to 1; a later one increases it by exactly 1 when the
\* whole-day gap between the previous last_workout and now is at most 2
\* days, and resets it to 1 when the gap exceeds 2 days.
C1_StreakPolicy ==
    \A c \in Chats : \A i \in 1 .. Len(calls[c]) :
        LET call == calls[c][i]
            prev == call.before.last_workout
        IN  IF ~Truthy(prev)
            THEN call.after.current_streak = 1
            ELSE IF DaysBetween(fromisoformat(prev), call.at) <= 2
                 THEN call.after.current_streak = call.before.current_streak + 1
                 ELSE call.after.current_streak = 1

\* C2: after any sequence of log_workout calls on a fresh record,
\* workouts_done is the number of calls and max_hold_time is the largest
\* hold_seconds passed.
C2_CountAndMaxHold ==
    \A c \in Chats :
        /\ StatsOf(user_stats, c).workouts_done = Len(calls[c])
        /\ StatsOf(user_stats, c).max_hold_time = MaxHoldOf(calls[c])

\* A chat whose last call passed a smaller hold than an earlier one.
C2_Witness ==
    \E c \in Chats :
        /\ Len(calls[c]) >= 2
        /\ calls[c][Len(calls[c])].hold_time < calls[c][1].hold_time
        /\ user_stats[c].max_hold_time = calls[c][1].hold_time
        /\ user_stats[c].workouts_done = Len(calls[c])

\* C5: first_workout is reported as newly unlocked exactly once, by the
\* call that brings workouts_done to 1, and by no later call.
C5_FirstWorkoutOnce ==
    \A c \in Chats :
        /\ \A i \in 1 .. Len(calls[c]) :
              Contains(calls[c][i].new, "first_workout")
                  <=> calls[c][i].after.workouts_done = 1
        /\ Len(calls[c]) >= 1 => Reporting(calls[c], "first_workout") = {1}

\* Several calls were made and only the first reported first_workout.
C5_Witness ==
    \E c \in Chats :
        /\ Len(calls[c]) >= 3
        /\ Contains(calls[c][1].new, "first_workout")
        /\ ~Contains(calls[c][3].new, "first_workout")
        /\ Contains(user_stats[c].achievements, "first_workout")

\* C6: hold_60 is among the achievements iff some log_workout call passed
\* hold_seconds >= 60, and at most one call reports it as newly unlocked.
C6_Hold60 ==
    \A c \in Chats :
        /\ Contains(StatsOf(user_stats, c).achievements, "hold_60")
              <=> \E i \in 1 .. Len(calls[c]) : calls[c][i].hold_time >= 60
        /\ Cardinality(Reporting(calls[c], "hold_60")) <= 1

\* Two calls passed a hold of at least 60 and only the first reported
\* hold_60.
C6_Witness ==
    \E c \in Chats : \E i, j \in 1 .. Len(calls[c]) :
        /\ i < j
        /\ calls[c][i].hold_time >= 60
        /\ calls[c][j].hold_time >= 60
        /\ Reporting(calls[c], "hold_60") = {i}
        /\ Contains(user_stats[c].achievements, "hold_60")

RECURSIVE SumHold(_)
SumHold(cs) == IF cs = << >> THEN 0 ELSE Head(cs).hold_time + SumHold(Tail(cs))

RECURSIVE SumPullups(_)
SumPullups(cs) == IF cs = << >> THEN 0 ELSE Head(cs).pullups + SumPullups(Tail(cs))

NoDuplicates(seq) == \A i, j \in 1 .. Len(seq) : seq[i] = seq[j] => i = j

\* stats is what the submissions cs leave when each is applied to the
\* record the one before it left, starting from a fresh record.
OneAfterAnother(cs, stats) ==
    /\ \A i \in 1 .. Len(cs) :
          /\ cs[i].before = IF i = 1 THEN DefaultStats ELSE cs[i - 1].after
          /\ LogWorkout(cs[i].before, cs[i].hold_time, cs[i].pullups, cs[i].at)
                = [stats |-> cs[i].after, new |-> cs[i].new]
    /\ stats = IF cs = << >> THEN DefaultStats ELSE cs[Len(cs)].after

\* schedule_reminders_for_user has run for chat c: it runs in the step in
\* which the welcome message of start is delivered.
ScheduleCalled(c) == outbox[<<c, "welcome">>] >= 1

ExactlyThreeTriggers(c) == \A d \in target_days : jobs[<<c, d>>] = 1

C4_AtMostOnceUnderRace ==
    \A c \in Chats :
        LET stats == StatsOf(user_stats, c)
        IN  /\ NoDuplicates(stats.achievements)
            /\ \A k \in 1 .. Len(ACHIEVEMENTS) :
                  Cardinality(Reporting(calls[c], ACHIEVEMENTS[k])) <= 1
            /\ stats.workouts_done = Len(calls[c])
            /\ stats.total_hold_time = 3 * SumHold(calls[c])
            /\ stats.pullups_done = 3 * SumPullups(calls[c])
            /\ stats.max_hold_time = MaxHoldOf(calls[c])
            /\ OneAfterAnother(calls[c], stats)

\* Two submissions of one chat are both suspended at edit_message_text,
\* each having updated the stats.
C4_Witness ==
    /\ inflight[1].chat_id = inflight[2].chat_id
    /\ \A h \in Handlers :
          /\ inflight[h].kind = "button"
          /\ IsLogSubmission(inflight[h].data)
          /\ inflight[h].pc = "edit_message_text"
    /\ user_stats[inflight[1].chat_id].workouts_done = 2
    /\ user_stats[inflight[1].chat_id].achievements = << "first_workout" >>

Rows(type, c) == {i \in 1 .. Len(sheet) : sheet[i].event_type = type /\ sheet[i].chat_id = c}

\* C8: the event sink never influences the core.  The stats and the
\* reported achievements are those of the submissions applied one after
\* another, whether the sink failed to initialise (log_event then appends
\* nothing), is available, or fails on a call; and log_event never raises.
C8_SinkNeverInfluencesCore ==
    /\ \A c \in Chats : OneAfterAnother(calls[c], StatsOf(user_stats, c))
    /\ \A c \in Chats : Line("error_sink", c) \notin logfile
    /\ ~service => sheet = << >>
    /\ \A c \in Chats : Line("sheets_write_failed", c) \in logfile => service

\* A submission was applied and answered while the write of its
\* WORKOUT_COMPLETED row failed.
C8_Witness ==
    \E c \in Chats :
        /\ service
        /\ Len(calls[c]) = 1
        /\ user_stats[c].workouts_done = 1
        /\ calls[c][1].new = << "first_workout" >>
        /\ outbox[<<c, "workout_confirmation">>] = 1
        /\ Rows("WORKOUT_COMPLETED", c) = {}
        /\ Line("sheets_write_failed", c) \in logfile

\* C9: a failed delivery of a reminder to a registered chat is caught
\* inside the firing, emits no REMINDER_SENT row and leaves the triggers
\* unchanged; a REMINDER_SENT row is emitted only after a delivery.
C9_DeliveryFailureCaught ==
    [][ \A h \in Handlers :
          (inflight[h].kind = "reminder" /\ inflight'[h] = Idle) =>
             LET c == inflight[h].chat_id
                 delivered == outbox'[<<c, "reminder">>] = outbox[<<c, "reminder">>] + 1
             IN  /\ jobs' = jobs
                 /\ delivered \/ outbox' = outbox
                 /\ ~delivered => sheet' = sheet
                 /\ sheet' # sheet =>
                       /\ delivered
                       /\ sheet' = Append(sheet, Event("REMINDER_SENT", c,
                                                       UsernameOf(user_chats, c)))
                 /\ Line("error_transport", c) \in logfile'
                       => Line("error_transport", c) \in logfile
      ]_vars

\* The delivery to a registered chat failed: no REMINDER_SENT row, and the
\* three triggers are still scheduled.
C9_Witness ==
    \E c \in Chats :
        /\ InRegistry(c)
        /\ Line("send_failed", c) \in logfile
        /\ outbox[<<c, "reminder">>] = 0
        /\ Rows("REMINDER_SENT", c) = {}
        /\ ExactlyThreeTriggers(c)
        /\ \A h \in Handlers : inflight[h] = Idle

\* C10: a stats or log-workout action of a chat that has not registered
\* through start is answered with a guidance message instead of the
\* statistics view or the workout confirmation.
C10_UnregisteredGuidance ==
    \A h \in Handlers :
        ( /\ inflight[h].kind = "button"
          /\ inflight[h].pc = "edit_message_text"
          /\ inflight[h].data = "stats" \/ IsLogSubmission(inflight[h].data)
          /\ ~InRegistry(inflight[h].chat_id) )
        => inflight[h].text = "guidance"

\* C7: a firing for a chat that is not in the registry removes that
\* trigger, starts no delivery and appends no row; no reminder and no
\* REMINDER_SENT row ever goes to such a chat.
C7_UnregisteredFiring ==
    /\ [] \A c \in Chats :
            ~InRegistry(c) =>
               /\ outbox[<<c, "reminder">>] = 0
               /\ Rows("REMINDER_SENT", c) = {}
               /\ \A h \in Handlers : inflight[h].chat_id # c
    /\ [][ ops' = ops + 1 =>
             \/ \E h \in Handlers :
                   /\ inflight[h] = Idle
                   /\ inflight'[h].kind = "reminder"
                   /\ InRegistry(inflight'[h].chat_id)
                   /\ jobs' = jobs
             \/ \E c \in Chats, d \in target_days :
                   /\ ~InRegistry(c)
                   /\ jobs[<<c, d>>] = 1
                   /\ jobs' = [jobs EXCEPT ![<<c, d>>] = 0]
                   /\ UNCHANGED << inflight, outbox, sheet, logfile >>
       ]_vars

\* A trigger of an unregistered chat fired and was removed; the chat's
\* other triggers remain and nothing was sent.
C7_Witness ==
    \E c \in Chats :
        /\ ~InRegistry(c)
        /\ ops >= 1
        /\ JobCount(jobs, c) = 2
        /\ outbox[<<c, "reminder">>] = 0
        /\ sheet = << >>

\* ------------------------------------- the engine on a record in use

PositionIn(seq, x) == CHOOSE i \in 1 .. Len(seq) : seq[i] = x

\* Earlier log_workout calls behind the record the engine starts from.
MaxWarmup == 9

RECURSIVE AfterCalls(_)
\* The record n calls of log_workout(25, 6) leave, all at tick 0.
AfterCalls(n) ==
    IF n = 0 THEN DefaultStats ELSE LogWorkout(AfterCalls(n - 1), 25, 6, 0).stats

\* The engine starts from a record that earlier calls have left.
InitSnapshot ==
    /\ \E n \in 0 .. MaxWarmup : user_stats = [c \in EngineChats |-> AfterCalls(n)]
    /\ user_chats = << >>
    /\ job_queue = TRUE
    /\ jobs = [j \in Chats \X target_days |-> 0]
    /\ service = TRUE
    /\ sheet = << >>
    /\ logfile = {}
    /\ now = 0
    /\ inflight = [h \in Handlers |-> Idle]
    /\ outbox = [m \in Chats \X Texts |-> 0]
    /\ calls = [c \in Chats |-> << >>]
    /\ ops = 0

SpecSnapshot == InitSnapshot /\ [][NextEngine]_vars

StartEnds(h) == inflight[h].kind = "start" /\ inflight'[h] = Idle

\* Handler h is taken by a /start in this step.
StartBegins(h) == inflight[h] = Idle /\ inflight'[h].kind = "start"

\* C12: every start leaves the registry mapping the chat id to the
\* profile just supplied and emits a START event to the sink, whatever the
\* outcome of sending the welcome message: when the start is over, the
\* sink (if there is one) has been handed a START event of that chat, so
\* the row is appended or the failure of its write is on record.
C12_RegisterAlwaysSucceeds ==
    [][\A h \in Handlers :
          /\ StartBegins(h) =>
                /\ inflight'[h].chat_id \in DOMAIN user_chats'
                /\ user_chats'[inflight'[h].chat_id].username = inflight'[h].data
                /\ user_chats'[inflight'[h].chat_id].registered_at = isoformat(now')
          /\ (StartEnds(h) /\ service) =>
                \/ /\ Len(sheet') = Len(sheet) + 1
                   /\ sheet'[Len(sheet')].event_type = "START"
                   /\ sheet'[Len(sheet')].chat_id = inflight[h].chat_id
                \/ /\ sheet' = sheet
                   /\ Line("sheets_write_failed", inflight[h].chat_id) \in logfile'
      ]_vars

\* Chat c has made exactly three log_workout(25, 6) calls from a fresh
\* record, one day after another.
ThreeDailyWorkouts(c) ==
    /\ Len(calls[c]) = 3
    /\ calls[c][1].before = DefaultStats
    /\ \A i \in 1 .. 3 : calls[c][i].hold_time = 25 /\ calls[c][i].pullups = 6
    /\ \A i \in 1 .. 2 : calls[c][i + 1].at = calls[c][i].at + TicksPerDay

\* C13: a fresh chat that logs hold 25 s and 6 pull-ups three times, one
\* day apart, ends with workouts_done = 3, current_streak = 3,
\* pullups_done = 54, total_hold_time = 225 and with first_workout and
\* streak_3 among its achievements.
C13_ThreeDayScenario ==
    \A c \in Chats :
        ThreeDailyWorkouts(c) =>
            /\ user_stats[c].workouts_done = 3
            /\ user_stats[c].current_streak = 3
            /\ user_stats[c].pullups_done = 54
            /\ user_stats[c].total_hold_time = 225
            /\ Contains(user_stats[c].achievements, "first_workout")
            /\ Contains(user_stats[c].achievements, "streak_3")

\* The three calls of the scenario have been made, the third two days
\* after the first, and the third reported streak_3.
C13_Witness ==
    \E c \in Chats :
        /\ ThreeDailyWorkouts(c)
        /\ calls[c][3].at = calls[c][1].at + 2 * TicksPerDay
        /\ Contains(calls[c][3].new, "streak_3")

\* C14: in every reachable state and for every chat id, achievements
\* holds only ids of the catalogue and none twice, max_hold_time is at
\* least every hold value logged so far, and current_streak >= 0.
C14_StatsInvariant ==
    \A c \in Chats :
        LET stats == StatsOf(user_stats, c)
        IN  /\ \A i \in 1 .. Len(stats.achievements) :
                  Contains(ACHIEVEMENTS, stats.achievements[i])
            /\ NoDuplicates(stats.achievements)
            /\ \A i \in 1 .. Len(calls[c]) :
                  stats.max_hold_time >= calls[c][i].hold_time
            /\ stats.current_streak >= 0

\* A chat with several achievements that passed a hold of 60 s or more
\* twice and then a smaller one.
C14_Witness ==
    \E c \in Chats :
        /\ Len(calls[c]) = 3
        /\ calls[c][1].hold_time >= 60
        /\ calls[c][2].hold_time >= 60
        /\ calls[c][3].hold_time < calls[c][1].hold_time
        /\ Len(user_stats[c].achievements) >= 3
        /\ user_stats[c].current_streak >= 1

\* ------------------------------------------- the router with every input

\* The commands the help text announces besides /start.
Commands == {"workout", "stats", "achievements", "fact", "log"}

\* The commands main registers a CommandHandler for.
CommandHandlers == {"start", "workout", "fact"}

\* The text workout_command and fact_command reply with.
CommandText(command) ==
    CASE command = "workout" -> "todays_workout"
      [] command = "fact"    -> "fact"
      [] OTHER -> ""

\* A command other than /start arrives: the handler main registered for it
\* runs up to `await update.message.reply_text`; the Application has
\* nothing to call for a command without a handler.
CommandBegin(c, command) ==
    /\ CanBegin
    /\ IF command \in CommandHandlers
       THEN Begin("command", c, command, "reply_text", CommandText(command))
       ELSE /\ ops' = ops + 1
            /\ UNCHANGED inflight
    /\ UNCHANGED << user_chats, user_stats, job_queue, jobs, service, sheet,
                    logfile, now, outbox, calls >>

\* reply_text returns in workout_command or fact_command.
CommandReplied(h) ==
    /\ inflight[h].kind = "command"
    /\ inflight[h].pc = "reply_text"
    /\ Deliver(inflight[h].chat_id, inflight[h].text)
    /\ Finish(h)
    /\ UNCHANGED << user_chats, user_stats, job_queue, jobs, service, sheet,
                    logfile, now, calls, ops >>

\* reply_text raises in workout_command or fact_command.
CommandReplyFailed(h, outcome) == AwaitFailed(h, "command", "reply_text", outcome)

\* The router is driven by one chat with every callback value and command.
RouterChats == {1}

NextRouter ==
    \/ \E c \in RouterChats, u \in SpecUsernames, f \in FirstNames, t \in Clock :
          StartBegin(c, u, f, t)
    \/ \E h \in Handlers, o \in Outcomes : StartReplied(h, o)
    \/ \E h \in Handlers, o \in Outcomes : StartReplyFailed(h, o)
    \/ \E c \in RouterChats, d \in CallbackData : ButtonBegin(c, d)
    \/ \E h \in Handlers, t \in Clock : ButtonAnswered(h, t)
    \/ \E h \in Handlers, o \in Outcomes : ButtonAnswerFailed(h, o)
    \/ \E h \in Handlers, o \in Outcomes : ButtonEdited(h, o)
    \/ \E h \in Handlers, o \in Outcomes : ButtonEditFailed(h, o)
    \/ \E c \in RouterChats, command \in Commands : CommandBegin(c, command)
    \/ \E h \in Handlers : CommandReplied(h)
    \/ \E h \in Handlers, o \in Outcomes : CommandReplyFailed(h, o)
    \/ \E c \in RouterChats, d \in target_days : Fire(c, d)
    \/ \E h \in Handlers, ok \in BOOLEAN, o \in Outcomes : ReminderSend(h, ok, o)

\* The router runs with a job queue and with the event sink built.
InitRouter == Init /\ job_queue /\ service

SpecRouter == InitRouter /\ [][NextRouter]_vars

\* Handler h applies a log-workout submission of chat c in this step.
LogSubmissionApplied(h, c) ==
    /\ inflight[h].kind = "button"
    /\ inflight[h].pc = "answer"
    /\ inflight[h].chat_id = c
    /\ IsLogSubmission(inflight[h].data)
    /\ inflight'[h].pc = "edit_message_text"

\* C15: the stats are changed only by a log-workout submission.  Start,
\* the views, help, the random fact, today's workout, the detail menu
\* ("log_workout"), the commands and reminder firings leave every field of
\* every chat's stats as it was; they may create a missing record, with
\* all-zero values and no achievements, and never drop a record.
C15_OnlyLogChangesStats ==
    [][\A c \in Chats :
          /\ StatsOf(user_stats', c) # StatsOf(user_stats, c)
                => \E h \in Handlers : LogSubmissionApplied(h, c)
          /\ c \in DOMAIN user_stats => c \in DOMAIN user_stats'
      ]_vars

\* A chat whose single submission was applied and answered has its stats
\* view open, and its stats are those the submission left.
C15_Witness ==
    \E c \in Chats, h \in Handlers :
        /\ Len(calls[c]) = 1
        /\ outbox[<<c, "workout_confirmation">>] = 1
        /\ inflight[h].chat_id = c
        /\ inflight[h].data = "stats"
        /\ inflight[h].pc = "edit_message_text"
        /\ user_stats[c] = calls[c][1].after
        /\ user_stats[c].workouts_done = 1

\* ---------------------------------------------------- two chats at once

\* The log-workout submission the two chats press.
CrossButtons == {"log_hold_45"}

\* Two chats start, log workouts and have jobs that fire, from a state in
\* which the registry and the scheduled chats are drawn independently, so
\* that a job of a chat missing from the registry can remove itself.
NextCross ==
    \/ \E c \in Chats, u \in SpecUsernames, f \in FirstNames, t \in Clock :
          StartBegin(c, u, f, t)
    \/ \E h \in Handlers, o \in Outcomes : StartReplied(h, o)
    \/ \E h \in Handlers, o \in Outcomes : StartReplyFailed(h, o)
    \/ \E c \in Chats, d \in CrossButtons : ButtonBegin(c, d)
    \/ \E h \in Handlers, t \in Clock : ButtonAnswered(h, t)
    \/ \E h \in Handlers, o \in Outcomes : ButtonAnswerFailed(h, o)
    \/ \E h \in Handlers, o \in Outcomes : ButtonEdited(h, o)
    \/ \E h \in Handlers, o \in Outcomes : ButtonEditFailed(h, o)
    \/ \E c \in Chats, d \in target_days : Fire(c, d)
    \/ \E h \in Handlers, ok \in BOOLEAN, o \in Outcomes : ReminderSend(h, ok, o)

SpecCross == InitReminder /\ [][NextCross]_vars

\* The triggers of chat c, per day.
TriggersOf(js, c) == [d \in target_days |-> js[<<c, d>>]]

\* schedule(c) runs or is skipped in this step: a start of chat c is over.
ScheduleStep(c) == \E h \in Handlers : StartEnds(h) /\ inflight[h].chat_id = c

\* A job of chat c, missing from the registry, removes itself in this step.
SelfRemoval(c) ==
    /\ c \notin DOMAIN user_chats
    /\ ops' = ops + 1
    /\ inflight' = inflight
    /\ TriggersOf(jobs', c) # TriggersOf(jobs, c)

\* C16: operations on one chat id do not touch another.  log_workout for
\* chat a leaves the stats, achievements included, of every other chat b as
\* they were, and schedule(a) and the self-removal of a trigger of a leave
\* the triggers of every other chat b as they were.
C16_CrossChatIndependence ==
    [][\A a, b \in Chats :
          a # b =>
            /\ (\E h \in Handlers : LogSubmissionApplied(h, a)) =>
                  /\ StatsOf(user_stats', b) = StatsOf(user_stats, b)
                  /\ b \in DOMAIN user_stats' <=> b \in DOMAIN user_stats
            /\ ScheduleStep(a) => TriggersOf(jobs', b) = TriggersOf(jobs, b)
            /\ SelfRemoval(a) => TriggersOf(jobs', b) = TriggersOf(jobs, b)
      ]_vars

\* Chat a, missing from the registry, has lost one trigger by self-removal
\* and has logged a workout; chat b still has its three triggers and its
\* untouched stats.
C16_Witness ==
    \E a, b \in Chats :
        /\ a # b
        /\ a \notin DOMAIN user_chats
        /\ JobCount(jobs, a) = 2
        /\ Len(calls[a]) = 1
        /\ user_stats[a].workouts_done = 1
        /\ ExactlyThreeTriggers(b)
        /\ b \notin DOMAIN user_stats

\* C17: after any sequence of log_workout calls on a fresh record,
\* total_hold_time is 3 times the sum of the hold_seconds passed and
\* pullups_done is 3 times the sum of the pullup_reps passed, and no call
\* decreases either.
C17_ThreeSetsAccumulated ==
    \A c \in Chats :
        /\ StatsOf(user_stats, c).total_hold_time = 3 * SumHold(calls[c])
        /\ StatsOf(user_stats, c).pullups_done = 3 * SumPullups(calls[c])
        /\ \A i \in 1 .. Len(calls[c]) :
              /\ calls[c][i].after.total_hold_time >= calls[c][i].before.total_hold_time
              /\ calls[c][i].after.pullups_done >= calls[c][i].before.pullups_done

\* Three calls with different holds and different pull-up counts.
C17_Witness ==
    \E c \in Chats :
        /\ Len(calls[c]) = 3
        /\ calls[c][1].hold_time # calls[c][2].hold_time
        /\ calls[c][1].pullups # calls[c][3].pullups
        /\ user_stats[c].total_hold_time = 3 * SumHold(calls[c])
        /\ user_stats[c].pullups_done > 3 * 6 * 3

\* C18: when handling an interaction raises, the error is caught at the
\* router boundary, an ERROR event with the chat id goes to the sink and
\* the user is answered with a generic apology: for a chat for which the
\* error handler has run, the sink (if there is one) was handed an ERROR
\* event and the chat has been sent the apology.
C18_ErrorAnswered ==
    \A c \in Chats :
        Line("error_transport", c) \in logfile =>
            /\ service => \/ Rows("ERROR", c) # {}
                          \/ Line("sheets_write_failed", c) \in logfile
            /\ outbox[<<c, "apology">>] >= 1

\* The callback data the keyboards of the responses carry.
Offered == CallbackData \ {"log_other"}

\* C19: every next action a response offers (every callback_data on a
\* keyboard, "back_to_menu" included) and every command of the help text
\* is dispatched to a handler that produces a response; none is silently
\* dropped.  A button handler of an offered value that gets past
\* query.answer() goes on to send its response, and every arriving update
\* starts a handler (or, for a firing job, removes the job).
C19_EveryOfferedActionDispatched ==
    [][/\ \A h \in Handlers :
             ( /\ inflight[h].kind = "button"
               /\ inflight[h].pc = "answer"
               /\ inflight[h].data \in Offered
               /\ inflight'[h] = Idle )
             => Line("error_transport", inflight[h].chat_id) \in logfile'
       /\ ops' = ops + 1 => (inflight' # inflight \/ jobs' # jobs)
      ]_vars

StartInProgress == \E h \in Handlers : inflight[h].kind = "start"

\* C20: whenever no start handler is in progress, every chat id in the
\* registry has exactly three active triggers, one each for Monday,
\* Wednesday and Friday, also after a start whose welcome message could
\* not be sent or that ran without a job queue.
C20_RegisteredIsScheduled ==
    ~StartInProgress => \A c \in Chats : InRegistry(c) => ExactlyThreeTriggers(c)

\* ----------------------------------------------------- claims C21 - C23

\* The hold values the buttons of the detail menu stand for.
ButtonHolds == {25, 35, 45}

\* C21: through the button selections of the router the hold value of a
\* logged workout is always one of 25, 35, 45, so in every reachable state
\* max_hold_time is in {0, 25, 35, 45} and hold_60 is in no chat's
\* achievements.
C21_RouterHolds ==
    \A c \in Chats :
        /\ \A i \in 1 .. Len(calls[c]) : calls[c][i].hold_time \in ButtonHolds
        /\ StatsOf(user_stats, c).max_hold_time \in {0} \cup ButtonHolds
        /\ ~Contains(StatsOf(user_stats, c).achievements, "hold_60")

\* A chat that pressed the largest hold bucket and then a smaller one.
C21_Witness ==
    \E c \in Chats :
        /\ Len(calls[c]) = 2
        /\ calls[c][1].hold_time = 45
        /\ calls[c][2].hold_time = 35
        /\ user_stats[c].max_hold_time = 45
        /\ ~Contains(user_stats[c].achievements, "hold_60")

\* What a "log_" button stands for: the bucket it names, and the default
\* (hold 25 s, 6 pull-ups) for the dimension it does not name.
Chosen(callback_data) ==
    [ hold_time |-> CASE callback_data = "log_hold_35" -> 35
                      [] callback_data = "log_hold_45" -> 45
                      [] OTHER -> 25,
      pullups   |-> CASE callback_data = "log_pull_5" -> 5
                      [] callback_data = "log_pull_7" -> 7
                      [] callback_data = "log_pull_9" -> 9
                      [] OTHER -> 6 ]

\* C22: every callback whose data starts with "log_", other than
\* "log_workout" itself, records one complete workout: when its handler
\* goes on from query.answer() (and no error is on record for the chat,
\* so query.answer() did not raise), workouts_done goes up by exactly 1, with the
\* bucket the button names and the default for the other dimension.  So a
\* hold bucket followed by a pull-up bucket counts as two workouts.
C22_EveryLogButtonIsAWorkout ==
    [][\A h \in Handlers :
          ( /\ inflight[h].kind = "button"
            /\ inflight[h].pc = "answer"
            /\ inflight[h].data \in LogPrefixed \ {"log_workout"}
            /\ inflight'[h] # inflight[h]
            /\ Line("error_transport", inflight[h].chat_id) \notin logfile' )
          => LET c == inflight[h].chat_id
                 call == calls'[c][Len(calls'[c])]
             IN  /\ Len(calls'[c]) = Len(calls[c]) + 1
                 /\ StatsOf(user_stats', c).workouts_done
                       = StatsOf(user_stats, c).workouts_done + 1
                 /\ call.hold_time = Chosen(inflight[h].data).hold_time
                 /\ call.pullups = Chosen(inflight[h].data).pullups
                 /\ StatsOf(user_stats', c).total_hold_time
                       = StatsOf(user_stats, c).total_hold_time + 3 * call.hold_time
                 /\ StatsOf(user_stats', c).pullups_done
                       = StatsOf(user_stats, c).pullups_done + 3 * call.pullups
      ]_vars

\* A chat chose a hold bucket and then a pull-up bucket: two workouts, the
\* first with the default pull-ups, the second with the default hold.
C22_Witness ==
    \E c \in Chats :
        /\ Len(calls[c]) = 2
        /\ calls[c][1].hold_time = 45 /\ calls[c][1].pullups = 6
        /\ calls[c][2].hold_time = 25 /\ calls[c][2].pullups = 9
        /\ user_stats[c].workouts_done = 2

\* C23: in every reachable state every active trigger belongs to a chat
\* id that is in the registry, no operation removes a profile, the
\* self-removal branch of a firing is never taken (a firing leaves the
\* triggers as they are), and a chat that has triggers keeps having them.
C23_TriggersOnlyForRegistered ==
    /\ [] \A c \in Chats : JobCount(jobs, c) > 0 => InRegistry(c)
    /\ [][ /\ \A c \in Chats : c \in DOMAIN user_chats => c \in DOMAIN user_chats'
           /\ \A c \in Chats : JobCount(jobs, c) > 0 => JobCount(jobs', c) > 0
           /\ (\A h \in Handlers : ~StartEnds(h)) => jobs' = jobs
         ]_vars

\* A registered chat whose reminder has fired and been delivered still has
\* its three triggers.
C23_Witness ==
    \E c \in Chats :
        /\ InRegistry(c)
        /\ outbox[<<c, "reminder">>] >= 1
        /\ ExactlyThreeTriggers(c)

====
